---- MODULE Spec2Model ----
(***************************************************************************)
(* Cart/Order store of metall-it-front (the CartProvider React component). *)
(*                                                                         *)
(* The component holds two pieces of React state, `items` and `orders`.    *)
(* A store operation does not change them in place: it queues an updater   *)
(* (setItems / setOrders); the queued updaters run, in call order, when    *)
(* React renders the component again, and the two useEffect callbacks then *)
(* write the rendered lists to localStorage.  The model therefore keeps,   *)
(* for each list, the rendered value (what the closures of the current     *)
(* render read) and the value the next queued updater will receive.        *)
(*                                                                         *)
(* Units: supplier prices, item totals and order sums are counted in       *)
(* eighths (1 = 0.125), which binary floating point represents exactly;    *)
(* Order.totalAmount, the result of toFixed(2), is counted in hundredths.  *)
(* An optional value is a sequence of length at most one: <<>> is          *)
(* JavaScript's undefined (or a missing storage key), <<v>> is v.          *)
(***************************************************************************)
EXTENDS Integers, Sequences, FiniteSets, TLC

\* ------------------------------------------------------------------ bounds
MaxCart == 2       \* most entries the cart may hold
MaxQty == 2        \* largest quantity an entry reaches by merging
MaxOrders == 2     \* most orders in the history
MaxClock == 1      \* milliseconds the clock advances past its first reading
MaxRandom == 1     \* largest random integer drawn for an order id
MaxCalls == 3      \* operations and mounts explored in one behaviour

\* Math.floor(Math.random() * 1000) lies in 0 .. RandomRange - 1
RandomRange == 1000

\* new Date().toLocaleString() names the time to the second.
MsPerSecond == 1000

Undefined == <<>>
Some(v) == <<v>>

\* ------------------------------------------------------------ input domain
\* Offers of product 1: A is the first offer but not the cheapest, B and C
\* tie for the lowest price.
Offers1 == << [name |-> "A", price |-> 2],
              [name |-> "B", price |-> 1],
              [name |-> "C", price |-> 1] >>

\* Product 2 comes without an offer list or with an empty one.
ProductIds == {1, 2}
ProductName(id) == IF id = 1 THEN "Bolt" ELSE "Nut"
ProductOffers(id) == IF id = 1 THEN {Some(Offers1)} ELSE {Undefined, Some(<<>>)}

\* Supplier names passed by callers: none, an offer of product 1 that is not
\* the cheapest, and a name nobody offers.
SupplierArgs == {Undefined, Some("A"), Some("Z")}
\* Quantities passed to updateQuantity: negative, zero and positive.
QuantityArgs == -1 .. 1
\* Quantities of the products passed to addToCart: zero and positive.
ProductQuantities == 0 .. 1

\* The CartItem values passed to addToCart.
Products ==
    UNION { { [id |-> i, name |-> ProductName(i), quantity |-> q,
                availableSuppliers |-> o, selectedSupplierName |-> s] :
                  o \in ProductOffers(i), q \in ProductQuantities,
                  s \in SupplierArgs } :
            i \in ProductIds }

\* The readings of the millisecond clock: the store is constructed in the
\* last millisecond of a second, so that later readings fall in the next.
ClockValues == (MsPerSecond - 1) .. (MsPerSecond - 1 + MaxClock)
RandomDraws == 0 .. (IF MaxRandom < RandomRange THEN MaxRandom ELSE RandomRange - 1)

VARIABLES
    items,          \* rendered cart: the `items` the current closures read
    orders,         \* rendered order history
    prevItems,      \* cart the next queued setItems updater receives
    prevOrders,     \* order history the next queued setOrders updater receives
    itemsQueued,    \* a setItems update is queued for the next render
    ordersQueued,   \* a setOrders update is queued for the next render
    effects,        \* useEffect callbacks still to run after the last commit
    storage,        \* localStorage: the records "cartItems" and "orders"
    now,            \* the last reading of the clock
    checkoutCalls,  \* invocations of onCheckoutSuccess since the mount
    mountedOrders,  \* length of the order history loaded by the mount
    op,             \* the last step taken, and what it reported with alert()
    calls           \* operations and mounts so far

vars == << items, orders, prevItems, prevOrders, itemsQueued, ordersQueued,
           effects, storage, now, checkoutCalls, mountedOrders, op,
           calls >>

\* -------------------------------------------------------------- JavaScript
\* Truthiness of an optional string: undefined and "" are falsy.
Truthy(s) == s # Undefined /\ s[1] # ""

\* Array.prototype.reduce as used to find the cheapest supplier: keep the
\* running minimum, replace it only by a strictly cheaper offer.
RECURSIVE ReduceMin(_, _, _)
ReduceMin(suppliers, i, minSupplier) ==
    IF i > Len(suppliers) THEN minSupplier
    ELSE ReduceMin(suppliers, i + 1,
                   IF suppliers[i].price < minSupplier.price
                     THEN suppliers[i] ELSE minSupplier)

\* Variant: the reduce replaces the running minimum on `<=`, so the last of
\* the cheapest offers wins.
RECURSIVE ReduceMinLast(_, _, _)
ReduceMinLast(suppliers, i, minSupplier) ==
    IF i > Len(suppliers) THEN minSupplier
    ELSE ReduceMinLast(suppliers, i + 1,
                       IF suppliers[i].price <= minSupplier.price
                         THEN suppliers[i] ELSE minSupplier)

cheapestSupplier_LastOnTie(suppliers) == ReduceMinLast(suppliers, 1, suppliers[1])

cheapestSupplier(suppliers) == ReduceMin(suppliers, 1, suppliers[1])

\* item.availableSuppliers && item.availableSuppliers.length > 0
HasSuppliers(item) ==
    item.availableSuppliers # Undefined /\ Len(item.availableSuppliers[1]) > 0

\* Array.prototype.filter; keep[i] is the callback's result on s[i].
Filter(s, keep) ==
    LET F[i \in 0 .. Len(s)] ==
          IF i = 0 THEN <<>>
          ELSE IF keep[i] THEN Append(F[i - 1], s[i]) ELSE F[i - 1]
    IN F[Len(s)]

\* Array.prototype.findIndex and find, 1-based, 0 standing for "not found";
\* test[i] is the callback's result on element i.
FindIndex(test) ==
    IF \E i \in 1 .. Len(test) : test[i]
      THEN CHOOSE i \in 1 .. Len(test) :
             test[i] /\ \A j \in 1 .. i - 1 : ~test[j]
      ELSE 0

\* Number.prototype.toFixed(2) followed by parseFloat, on a value given in
\* eighths; the result is in hundredths.  toFixed picks the nearest
\* two-decimal value, the larger one on a tie, and treats a negative value
\* as the negation of its magnitude.
ToFixed2Magnitude(e) == (25 * e + 1) \div 2
parseFloatToFixed2(e) ==
    IF e < 0 THEN -ToFixed2Magnitude(-e) ELSE ToFixed2Magnitude(e)

\* --------------------------------------------------------------- JSON
\* JSON.stringify of one CartItem: a property whose value is undefined is
\* left out.
StringifyItem(item) ==
    [id |-> item.id, name |-> item.name, quantity |-> item.quantity]
    @@ (IF item.availableSuppliers # Undefined
          THEN [availableSuppliers |-> item.availableSuppliers[1]] ELSE <<>>)
    @@ (IF item.selectedSupplierName # Undefined
          THEN [selectedSupplierName |-> item.selectedSupplierName[1]] ELSE <<>>)

\* JSON.parse of one stored CartItem, read through the CartItem type: a
\* property that is not there reads as undefined.
ParseItem(json) ==
    [id |-> json.id, name |-> json.name, quantity |-> json.quantity,
     availableSuppliers |->
        IF "availableSuppliers" \in DOMAIN json
          THEN Some(json.availableSuppliers) ELSE Undefined,
     selectedSupplierName |->
        IF "selectedSupplierName" \in DOMAIN json
          THEN Some(json.selectedSupplierName) ELSE Undefined]

\* JSON.stringify(items) and the array JSON.parse(savedCart) returns.
StringifyItems(list) == [i \in 1 .. Len(list) |-> StringifyItem(list[i])]
ParseItems(json) == [i \in 1 .. Len(json) |-> ParseItem(json[i])]

\* An Order and its OrderItems have no optional property: every property is
\* written and read back.
StringifyOrderItem(it) ==
    [productId |-> it.productId, productName |-> it.productName,
     quantity |-> it.quantity, supplierName |-> it.supplierName,
     supplierPrice |-> it.supplierPrice, itemTotal |-> it.itemTotal]

ParseOrderItem(json) ==
    [productId |-> json.productId, productName |-> json.productName,
     quantity |-> json.quantity, supplierName |-> json.supplierName,
     supplierPrice |-> json.supplierPrice, itemTotal |-> json.itemTotal]

StringifyOrder(order) ==
    [id |-> order.id, date |-> order.date,
     items |-> [i \in 1 .. Len(order.items) |->
                 StringifyOrderItem(order.items[i])],
     totalAmount |-> order.totalAmount]

ParseOrder(json) ==
    [id |-> json.id, date |-> json.date,
     items |-> [i \in 1 .. Len(json.items) |-> ParseOrderItem(json.items[i])],
     totalAmount |-> json.totalAmount]

\* JSON.stringify(orders) and the array JSON.parse(savedOrders) returns.
StringifyOrders(list) == [i \in 1 .. Len(list) |-> StringifyOrder(list[i])]
ParseOrders(json) == [i \in 1 .. Len(json) |-> ParseOrder(json[i])]

\* ------------------------------------------------------- useState initializers
\* One loaded cart item, lines 57-72: an item with offers gets the cheapest
\* supplier unless its stored selection is truthy and already names it.
loadedItem(item) ==
    IF HasSuppliers(item)
      THEN LET cheapest == cheapestSupplier(item.availableSuppliers[1])
           IN IF ~Truthy(item.selectedSupplierName)
                 \/ item.selectedSupplierName # Some(cheapest.name)
                THEN [item EXCEPT !.selectedSupplierName = Some(cheapest.name)]
                ELSE item
      ELSE item

\* The initial `items`: savedCart ? JSON.parse(savedCart) : [], then the map.
initialItems(savedCart) ==
    LET loadedItems == IF savedCart # Undefined
                         THEN ParseItems(savedCart[1]) ELSE <<>>
    IN [i \in 1 .. Len(loadedItems) |-> loadedItem(loadedItems[i])]

\* The initial `orders`: savedOrders ? JSON.parse(savedOrders) : [].
initialOrders(savedOrders) ==
    IF savedOrders # Undefined THEN ParseOrders(savedOrders[1]) ELSE <<>>

\* ------------------------------------------------------------- updaters
\* Variant: the existing entry is looked up by id alone.
addToCartUpdate_ById(prev, product) ==
    LET existingItemIndex ==
          FindIndex([i \in 1 .. Len(prev) |-> prev[i].id = product.id])
    IN IF existingItemIndex > 0
         THEN [prev EXCEPT ![existingItemIndex].quantity = @ + product.quantity]
         ELSE Append(prev, product)

\* The function addToCart passes to setItems.
addToCartUpdate(prev, product) ==
    LET existingItemIndex ==
          FindIndex([i \in 1 .. Len(prev) |->
                       prev[i].id = product.id
                       /\ prev[i].selectedSupplierName
                            = product.selectedSupplierName])
        itemToAdd ==
          IF HasSuppliers(product) /\ ~Truthy(product.selectedSupplierName)
            THEN [product EXCEPT !.selectedSupplierName =
                    Some(cheapestSupplier(product.availableSuppliers[1]).name)]
            ELSE product
    IN IF existingItemIndex > 0
         THEN [prev EXCEPT ![existingItemIndex].quantity = @ + product.quantity]
         ELSE Append(prev, itemToAdd)

\* Variant: only the first entry with the id is removed.
removeFromCartUpdate_FirstOnly(prev, productId) ==
    LET first == FindIndex([i \in 1 .. Len(prev) |-> prev[i].id = productId])
    IN Filter(prev, [i \in 1 .. Len(prev) |-> i # first])

\* The function removeFromCart passes to setItems.
removeFromCartUpdate(prev, productId) ==
    Filter(prev, [i \in 1 .. Len(prev) |-> prev[i].id # productId])

\* Variant: the updated entry is rebuilt without its selection.
updateQuantityUpdate_LosesSelection(prev, productId, quantity) ==
    LET mapped == [i \in 1 .. Len(prev) |->
                     IF prev[i].id = productId
                       THEN [prev[i] EXCEPT !.quantity = quantity,
                                            !.selectedSupplierName = Undefined]
                       ELSE prev[i]]
    IN Filter(mapped, [i \in 1 .. Len(mapped) |-> mapped[i].quantity > 0])

\* The function updateQuantity passes to setItems: map, then filter.
updateQuantityUpdate(prev, productId, quantity) ==
    LET mapped == [i \in 1 .. Len(prev) |->
                     IF prev[i].id = productId
                       THEN [prev[i] EXCEPT !.quantity = quantity] ELSE prev[i]]
    IN Filter(mapped, [i \in 1 .. Len(mapped) |-> mapped[i].quantity > 0])

\* Variant: entries left without a selection are dropped from the cart.
selectSupplierUpdate_DropsUnselected(prev, itemId, supplierName) ==
    LET mapped == [i \in 1 .. Len(prev) |->
                     IF prev[i].id = itemId
                       THEN [prev[i] EXCEPT !.selectedSupplierName = supplierName]
                       ELSE prev[i]]
    IN Filter(mapped, [i \in 1 .. Len(mapped) |->
                         mapped[i].selectedSupplierName # Undefined])

\* The function selectSupplierForItem passes to setItems.
selectSupplierUpdate(prev, itemId, supplierName) ==
    [i \in 1 .. Len(prev) |->
       IF prev[i].id = itemId
         THEN [prev[i] EXCEPT !.selectedSupplierName = supplierName] ELSE prev[i]]

\* ------------------------------------------------------------- placeOrder
\* item.availableSuppliers?.find(s => s.name === item.selectedSupplierName):
\* the first matching offer, or undefined.
selectedSupplier(item) ==
    IF item.availableSuppliers = Undefined \/ item.selectedSupplierName = Undefined
      THEN Undefined
      ELSE LET offers == item.availableSuppliers[1]
               k == FindIndex([i \in 1 .. Len(offers) |->
                                 offers[i].name = item.selectedSupplierName[1]])
           IN IF k > 0 THEN Some(offers[k]) ELSE Undefined

\* Variant: the line total forgets the quantity.
orderItem_TotalIsPrice(item) ==
    LET s == selectedSupplier(item)[1]
    IN [productId |-> item.id, productName |-> item.name,
        quantity |-> item.quantity, supplierName |-> s.name,
        supplierPrice |-> s.price, itemTotal |-> s.price]

orderItem(item) ==
    LET s == selectedSupplier(item)[1]
    IN [productId |-> item.id, productName |-> item.name,
        quantity |-> item.quantity, supplierName |-> s.name,
        supplierPrice |-> s.price, itemTotal |-> s.price * item.quantity]

\* newOrderItems after the forEach of lines 169-186.
newOrderItems(cart) ==
    LET F[i \in 0 .. Len(cart)] ==
          IF i = 0 THEN <<>>
          ELSE IF selectedSupplier(cart[i]) # Undefined
                 THEN Append(F[i - 1], orderItem(cart[i])) ELSE F[i - 1]
    IN F[Len(cart)]

\* orderTotal after the forEach: the running sum of the pushed item totals.
orderTotal(orderItems) ==
    LET F[i \in 0 .. Len(orderItems)] ==
          IF i = 0 THEN 0 ELSE F[i - 1] + orderItems[i].itemTotal
    IN F[Len(orderItems)]

\* `ORDER-${Date.now()}-${Math.floor(Math.random() * 1000)}`
orderId(time, random) == << "ORDER", time, random >>

\* new Date().toLocaleString(): the date and time of day of the reading, to
\* the second; the string is represented by the second it names.
toLocaleString(time) == time \div MsPerSecond

\* Date.now() of the id gives `time`; new Date() of the date, evaluated after
\* it, reads the clock again and gives `dateTime`.
newOrder(cart, time, dateTime, random) ==
    [id |-> orderId(time, random),
     date |-> toLocaleString(dateTime),
     items |-> newOrderItems(cart),
     totalAmount |-> parseFloatToFixed2(orderTotal(newOrderItems(cart)))]

\* Variants: the updater forgets the previous orders; the updater puts the
\* new order first.
appendOrder_Replaces(prev, order) == << order >>
appendOrder_Prepends(prev, order) == << order >> \o prev

\* The function placeOrder passes to setOrders: [...prevOrders, newOrder].
appendOrder(prev, order) == Append(prev, order)

\* items.every(item => item.selectedSupplierName)
allItemsHaveSuppliers(cart) ==
    \A i \in 1 .. Len(cart) : Truthy(cart[i].selectedSupplierName)

\* ---------------------------------------------------------------- bounds
WithinBounds(cart) ==
    /\ Len(cart) <= MaxCart
    /\ \A i \in 1 .. Len(cart) : cart[i].quantity \in -MaxQty .. MaxQty

\* A step that reports nothing to the user.
Step(name) == [name |-> name, alert |-> "none"]

\* ------------------------------------------------------------------ Init
Init ==
    /\ storage = [cartItems |-> Undefined, orders |-> Undefined]
    /\ items = initialItems(Undefined)
    /\ orders = initialOrders(Undefined)
    /\ prevItems = items
    /\ prevOrders = orders
    /\ itemsQueued = FALSE
    /\ ordersQueued = FALSE
    /\ effects = << "cartItems", "orders" >>
    /\ now = MsPerSecond - 1
    /\ checkoutCalls = 0
    /\ mountedOrders = 0
    /\ op = Step("mount")
    /\ calls = 0

\* --------------------------------------------------------------- actions
\* A store operation is called from an event handler of the rendered tree,
\* after the effects of the last commit have run.
Callable == effects = <<>> /\ calls < MaxCalls

QueueItems(next, name) ==
    /\ WithinBounds(next)
    /\ prevItems' = next
    /\ itemsQueued' = TRUE
    /\ op' = Step(name)
    /\ calls' = calls + 1
    /\ UNCHANGED << items, orders, prevOrders, ordersQueued, effects, storage,
                    now, checkoutCalls, mountedOrders >>

addToCart(product) ==
    /\ Callable
    /\ QueueItems(addToCartUpdate(prevItems, product), "addToCart")

removeFromCart(productId) ==
    /\ Callable
    /\ QueueItems(removeFromCartUpdate(prevItems, productId), "removeFromCart")

updateQuantity(productId, quantity) ==
    /\ Callable
    /\ QueueItems(updateQuantityUpdate(prevItems, productId, quantity),
                  "updateQuantity")

clearCart ==
    /\ Callable
    /\ QueueItems(<<>>, "clearCart")

selectSupplierForItem(itemId, supplierName) ==
    /\ Callable
    /\ QueueItems(selectSupplierUpdate(prevItems, itemId, supplierName),
                  "selectSupplierForItem")

\* Variant: the check for an order without items is missing.
placeOrderAlert_NoEmptyOrderCheck ==
    IF Len(items) = 0 THEN "empty"
    ELSE IF ~allItemsHaveSuppliers(items) THEN "suppliers"
    ELSE "none"

\* Variant: one entry that does not resolve fails the whole checkout.
placeOrderAlert_AllMustResolve ==
    IF Len(items) = 0 THEN "empty"
    ELSE IF ~allItemsHaveSuppliers(items) THEN "suppliers"
    ELSE IF Len(newOrderItems(items)) < Len(items) THEN "failed"
    ELSE "none"

\* placeOrder reads `items`, the cart of the render its closure belongs to.
placeOrderAlert ==
    IF Len(items) = 0 THEN "empty"
    ELSE IF ~allItemsHaveSuppliers(items) THEN "suppliers"
    ELSE IF Len(newOrderItems(items)) = 0 THEN "failed"
    ELSE "none"

\* Its inputs are what Date.now(), new Date() and Math.random() return during
\* the call, in the order the call reads them; the clock never goes back.
placeOrder(time, dateTime, random) ==
    /\ Callable
    /\ time >= now
    /\ dateTime >= time
    /\ op' = [name |-> "placeOrder", alert |-> placeOrderAlert]
    /\ calls' = calls + 1
    /\ IF placeOrderAlert # "none"
         THEN /\ time = now /\ dateTime = now
              /\ UNCHANGED << prevItems, prevOrders, itemsQueued,
                              ordersQueued, checkoutCalls, now >>
         ELSE /\ Len(prevOrders) < MaxOrders
              /\ prevOrders' = appendOrder(prevOrders, newOrder(items, time, dateTime, random))
              /\ ordersQueued' = TRUE
              /\ prevItems' = <<>>
              /\ itemsQueued' = TRUE
              /\ checkoutCalls' = checkoutCalls + 1
              /\ now' = dateTime
    /\ UNCHANGED << items, orders, effects, storage, mountedOrders >>

\* React renders the component again: the queued updaters have run, and the
\* effects whose dependency changed are scheduled in declaration order.
Render ==
    /\ effects = <<>>
    /\ itemsQueued \/ ordersQueued
    /\ items' = prevItems
    /\ orders' = prevOrders
    /\ effects' = (IF itemsQueued THEN << "cartItems" >> ELSE <<>>)
                   \o (IF ordersQueued THEN << "orders" >> ELSE <<>>)
    /\ itemsQueued' = FALSE
    /\ ordersQueued' = FALSE
    /\ op' = Step("render")
    /\ UNCHANGED << prevItems, prevOrders, storage, now, checkoutCalls,
                    mountedOrders, calls >>

\* Variant: the effect writes the cart only when it holds something.
persistItems_SkipsEmptyCart ==
    /\ effects # <<>> /\ Head(effects) = "cartItems"
    /\ storage' = IF items = <<>> THEN storage
                  ELSE [storage EXCEPT
                          !.cartItems = Some(StringifyItems(items))]
    /\ effects' = Tail(effects)
    /\ op' = Step("persistItems")
    /\ UNCHANGED << items, orders, prevItems, prevOrders, itemsQueued,
                    ordersQueued, now, checkoutCalls, mountedOrders, calls >>

\* useEffect(() => localStorage.setItem("cartItems", ...), [items])
persistItems ==
    /\ effects # <<>> /\ Head(effects) = "cartItems"
    /\ storage' = [storage EXCEPT
                     !.cartItems = Some(StringifyItems(items))]
    /\ effects' = Tail(effects)
    /\ op' = Step("persistItems")
    /\ UNCHANGED << items, orders, prevItems, prevOrders, itemsQueued,
                    ordersQueued, now, checkoutCalls, mountedOrders, calls >>

\* Variant: the orders effect runs without writing the record.
persistOrders_SkipsWrite ==
    /\ effects # <<>> /\ Head(effects) = "orders"
    /\ effects' = Tail(effects)
    /\ op' = Step("persistOrders")
    /\ UNCHANGED << items, orders, prevItems, prevOrders, itemsQueued,
                    ordersQueued, storage, now, checkoutCalls, mountedOrders,
                    calls >>

\* useEffect(() => localStorage.setItem("orders", ...), [orders])
persistOrders ==
    /\ effects # <<>> /\ Head(effects) = "orders"
    /\ storage' = [storage EXCEPT
                     !.orders = Some(StringifyOrders(orders))]
    /\ effects' = Tail(effects)
    /\ op' = Step("persistOrders")
    /\ UNCHANGED << items, orders, prevItems, prevOrders, itemsQueued,
                    ordersQueued, now, checkoutCalls, mountedOrders, calls >>

\* The page is loaded again: a new CartProvider is mounted on whatever the
\* storage holds at that moment; queued updates and pending effects of the
\* old one are gone, and both effects run after the first render.
Mount ==
    /\ calls < MaxCalls
    /\ items' = initialItems(storage.cartItems)
    /\ orders' = initialOrders(storage.orders)
    /\ prevItems' = items'
    /\ prevOrders' = orders'
    /\ itemsQueued' = FALSE
    /\ ordersQueued' = FALSE
    /\ effects' = << "cartItems", "orders" >>
    /\ checkoutCalls' = 0
    /\ mountedOrders' = Len(orders')
    /\ op' = Step("mount")
    /\ calls' = calls + 1
    /\ UNCHANGED << storage, now >>

Next ==
    \/ \E product \in Products : addToCart(product)
    \/ \E productId \in ProductIds : removeFromCart(productId)
    \/ \E productId \in ProductIds, quantity \in QuantityArgs :
          updateQuantity(productId, quantity)
    \/ clearCart
    \/ \E itemId \in ProductIds, supplierName \in SupplierArgs :
          selectSupplierForItem(itemId, supplierName)
    \/ \E time \in ClockValues, dateTime \in ClockValues, random \in RandomDraws :
          placeOrder(time, dateTime, random)
    \/ Render
    \/ persistItems
    \/ persistOrders
    \/ Mount

Spec == Init /\ [][Next]_vars

\* ============================================================ properties
\* A step of the named store operation.
IsCall(name) == op'.name = name /\ calls' = calls + 1

Entries(cart) == 1 .. Len(cart)

IsPrefix(s, t) == Len(s) <= Len(t) /\ SubSeq(t, 1, Len(s)) = s

\* The offers of a cart entry whose name is the entry's selection.
Resolving(item) ==
    IF item.availableSuppliers = Undefined \/ item.selectedSupplierName = Undefined
      THEN {}
      ELSE { k \in Entries(item.availableSuppliers[1]) :
               item.availableSuppliers[1][k].name = item.selectedSupplierName[1] }

Resolves(item) == Resolving(item) # {}

RECURSIVE SumOfItemTotals(_)
SumOfItemTotals(orderItems) ==
    IF orderItems = <<>> THEN 0
    ELSE Head(orderItems).itemTotal + SumOfItemTotals(Tail(orderItems))

\* `hundredths` is `eighths` rounded to two decimals: no two-decimal value
\* is nearer.
RoundedTo2(hundredths, eighths) ==
    LET d == 8 * hundredths - 100 * eighths IN -4 <= d /\ d <= 4

\* ------------------------------------------------------------------- C1
\* The order a successful placeOrder builds from the cart it reads.
C1_OrderOf(cart, order) ==
    /\ Len(order.items) = Len(cart)
    /\ \A i \in Entries(cart) :
         \E k \in Resolving(cart[i]) :
            LET offer == cart[i].availableSuppliers[1][k]
                line == order.items[i]
            IN /\ line.productId = cart[i].id
               /\ line.productName = cart[i].name
               /\ line.quantity = cart[i].quantity
               /\ line.supplierName = offer.name
               /\ line.supplierPrice = offer.price
               /\ line.itemTotal = offer.price * cart[i].quantity
    /\ RoundedTo2(order.totalAmount, SumOfItemTotals(order.items))

\* C1: placeOrder called on a non-empty cart (the `items` it reads) in which
\* every entry has a selected supplier that resolves to one of its offers
\* appends exactly one new Order to the order history; the Order has one
\* OrderItem per cart entry, in cart order, with itemTotal = resolved price
\* times quantity; its totalAmount is the sum of the item totals rounded to
\* two decimals; and the cart is empty afterwards.
C1_PlaceOrderBuildsOrder ==
    [][ (IsCall("placeOrder") /\ items # <<>>
           /\ \A i \in Entries(items) : Resolves(items[i]))
        => /\ Len(prevOrders') = Len(prevOrders) + 1
           /\ IsPrefix(prevOrders, prevOrders')
           /\ C1_OrderOf(items, prevOrders'[Len(prevOrders')])
           /\ prevItems' = <<>> ]_vars

\* A checkout of two entries with positive quantities, whose sum is not a
\* two-decimal value, has just succeeded.
C1_Witness ==
    /\ op = [name |-> "placeOrder", alert |-> "none"]
    /\ Len(items) = 2
    /\ \A i \in Entries(items) : items[i].quantity > 0
    /\ prevItems = <<>>
    /\ LET order == prevOrders[Len(prevOrders)]
       IN /\ Len(order.items) = 2
          /\ 8 * order.totalAmount # 100 * SumOfItemTotals(order.items)

\* ------------------------------------------------------------------- C2
C2_Fails(cart) ==
    \/ cart = <<>>
    \/ \E i \in Entries(cart) : cart[i].selectedSupplierName = Undefined
    \/ \A i \in Entries(cart) : ~Resolves(cart[i])

\* C2: placeOrder aborts with no state change when the cart it reads is
\* empty, when an entry has no selected supplier, and when no entry's
\* selected supplier resolves to one of its offers: the cart, the order
\* history and both persisted records are unchanged and the success
\* callback is not invoked.
C2_PlaceOrderAborts ==
    [][ (IsCall("placeOrder") /\ C2_Fails(items))
        => /\ op'.alert # "none"
           /\ UNCHANGED << items, prevItems, itemsQueued, orders, prevOrders,
                           ordersQueued, storage, checkoutCalls >> ]_vars

\* placeOrder has just refused a cart in which every entry has a selection
\* and none resolves.
C2_Witness ==
    /\ op = [name |-> "placeOrder", alert |-> "failed"]
    /\ items # <<>>
    /\ prevItems = items
    /\ \A i \in Entries(items) :
         items[i].selectedSupplierName # Undefined /\ ~Resolves(items[i])

\* ------------------------------------------------------------------- C3
\* The entries of the cart with the id and the selectedSupplierName of p.
C3_Matching(cart, p) ==
    { i \in Entries(cart) :
        cart[i].id = p.id
        /\ cart[i].selectedSupplierName = p.selectedSupplierName }

C3_Post(p) ==
    IF C3_Matching(prevItems, p) # {}
      THEN LET first == CHOOSE i \in C3_Matching(prevItems, p) :
                          \A j \in C3_Matching(prevItems, p) : i <= j
           IN /\ Len(prevItems') = Len(prevItems)
              /\ prevItems'[first] =
                   [prevItems[first] EXCEPT !.quantity = @ + p.quantity]
              /\ \A i \in Entries(prevItems) \ {first} :
                   prevItems'[i] = prevItems[i]
      ELSE /\ Len(prevItems') = Len(prevItems) + 1
           /\ IsPrefix(prevItems, prevItems')
           /\ LET added == prevItems'[Len(prevItems')]
              IN /\ added.id = p.id
                 /\ added.name = p.name
                 /\ added.quantity = p.quantity
                 /\ added.availableSuppliers = p.availableSuppliers

\* C3: addToCart(p): if the cart holds an entry with the id and the
\* selectedSupplierName of p, the first such entry's quantity increases by
\* p.quantity, the number of entries does not change and every other entry
\* is unchanged; otherwise (in particular when an entry with the same id has
\* another selectedSupplierName) exactly one entry is appended at the end
\* and all existing entries are unchanged.
C3_AddToCartMergesOrAppends ==
    [][ IsCall("addToCart")
        => \A p \in Products :
             prevItems' = addToCartUpdate(prevItems, p) => C3_Post(p) ]_vars

\* addToCart has just appended an entry next to one with the same id and
\* another selection, and merged nothing.
C3_Witness ==
    /\ op.name = "addToCart"
    /\ Len(prevItems) = 2
    /\ prevItems[1].id = prevItems[2].id
    /\ prevItems[1].selectedSupplierName # prevItems[2].selectedSupplierName
    /\ IsPrefix(items, prevItems) /\ Len(items) = 1

\* ------------------------------------------------------------------- C4
\* C4: the cart never contains an entry with quantity <= 0, whatever integer
\* quantities the operations are called with.
C4_QuantitiesPositive ==
    /\ \A i \in Entries(prevItems) : prevItems[i].quantity > 0
    /\ \A i \in Entries(items) : items[i].quantity > 0

\* ------------------------------------------------------------------- C5
\* The first offer of the list with the lowest price.
FirstMinimum(offers) ==
    CHOOSE k \in Entries(offers) :
      /\ \A j \in Entries(offers) : offers[k].price <= offers[j].price
      /\ \A j \in 1 .. k - 1 : offers[j].price > offers[k].price

\* Entry i of the new cart received the quantity of p: it is the appended
\* entry, or an entry of p's id whose quantity grew by p.quantity while every
\* other entry stayed as it was.
C5_Received(i, p) ==
    /\ prevItems'[i].id = p.id
    /\ \/ i = Len(prevItems) + 1 /\ IsPrefix(prevItems, prevItems')
       \/ /\ i <= Len(prevItems)
          /\ Len(prevItems') = Len(prevItems)
          /\ prevItems'[i].quantity = prevItems[i].quantity + p.quantity
          /\ \A j \in Entries(prevItems) \ {i} : prevItems'[j] = prevItems[j]

\* C5: after addToCart(p), where p has a non-empty offer list and no selected
\* supplier, the entry that received p's quantity has selectedSupplierName
\* equal to the name of the first minimum-price offer of p, whatever the cart
\* held before.
C5_AddSelectsCheapest ==
    [][ \A p \in Products :
          (/\ IsCall("addToCart")
           /\ HasSuppliers(p) /\ p.selectedSupplierName = Undefined
           /\ prevItems' = addToCartUpdate(prevItems, p))
          => \E i \in Entries(prevItems') :
               /\ C5_Received(i, p)
               /\ prevItems'[i].selectedSupplierName =
                    Some(p.availableSuppliers[1]
                           [FirstMinimum(p.availableSuppliers[1])].name) ]_vars

\* ------------------------------------------------------------------- C6
\* C6: the checkout success callback is invoked exactly once per successful
\* placeOrder and never otherwise: the number of invocations equals the
\* number of orders appended to the order history since initialization.
C6_CallbackPerOrder ==
    checkoutCalls = Len(prevOrders) - mountedOrders

\* Two checkouts have succeeded since the mount.
C6_Witness ==
    /\ op = [name |-> "placeOrder", alert |-> "none"]
    /\ checkoutCalls = 2
    /\ Len(prevOrders) = mountedOrders + 2

\* ------------------------------------------------------------------- C7
\* C7: no two orders of the order history have the same id.
C7_OrderIdsUnique ==
    \A i, j \in Entries(prevOrders) :
       i # j => prevOrders[i].id # prevOrders[j].id

\* ------------------------------------------------------------------- C8
\* The store operations other than placeOrder.
CartCalls ==
    {"addToCart", "removeFromCart", "updateQuantity", "selectSupplierForItem",
     "clearCart"}

\* C8: the order history is append-only and its orders are immutable: at
\* every step of every operation the previous history is a prefix of the new
\* one, both as queued and as rendered; only a successful placeOrder
\* lengthens it, by exactly one; addToCart, removeFromCart, updateQuantity,
\* selectSupplierForItem and clearCart leave it unchanged.  (A mount is not
\* an operation of the store: it starts from the persisted record.)
C8_HistoryAppendOnly ==
    [][ op'.name # "mount"
        => /\ IsPrefix(prevOrders, prevOrders')
           /\ IsPrefix(orders, orders')
           /\ IsPrefix(orders', prevOrders')
           /\ prevOrders' # prevOrders
                => /\ op' = [name |-> "placeOrder", alert |-> "none"]
                   /\ Len(prevOrders') = Len(prevOrders) + 1
           /\ op' = [name |-> "placeOrder", alert |-> "none"]
                => Len(prevOrders') = Len(prevOrders) + 1
           /\ (\E c \in CartCalls : IsCall(c))
                => UNCHANGED << orders, prevOrders >> ]_vars

\* A second, different order has just been appended behind the first.
C8_Witness ==
    /\ op = [name |-> "placeOrder", alert |-> "none"]
    /\ Len(prevOrders) = 2
    /\ prevOrders[1] # prevOrders[2]

\* ------------------------------------------------------------------- C9
\* Two carts agree in entries, order, ids, names, quantities and offers, and
\* in the selection of every entry that has no offers.
C9_SameCart(a, b) ==
    /\ Len(a) = Len(b)
    /\ \A i \in Entries(a) :
         /\ a[i].id = b[i].id
         /\ a[i].name = b[i].name
         /\ a[i].quantity = b[i].quantity
         /\ a[i].availableSuppliers = b[i].availableSuppliers
         /\ ~HasSuppliers(a[i])
              => a[i].selectedSupplierName = b[i].selectedSupplierName

\* C9: once the persistence effects have run, re-running Initialize from the
\* persisted `cartItems` and `orders` records yields the in-memory order
\* history, and the in-memory cart up to the selectedSupplierName of entries
\* that have offers.
C9_StorageRoundTrip ==
    effects = <<>>
      => /\ initialOrders(storage.orders) = orders
         /\ C9_SameCart(initialItems(storage.cartItems), items)

\* Both records have been written; the history holds an order and the cart
\* an entry whose selection a reload re-derives.
C9_Witness ==
    /\ effects = <<>>
    /\ op.name \in {"persistItems", "persistOrders"}
    /\ orders # <<>>
    /\ \E i \in Entries(items) :
         initialItems(storage.cartItems)[i].selectedSupplierName
           # items[i].selectedSupplierName

\* ------------------------------------------------------------------ C10
\* The cart entries of the persisted `cartItems` record.
C10_Stored == IF storage.cartItems = Undefined THEN <<>> ELSE storage.cartItems[1]

C10_HasOffers(json) ==
    "availableSuppliers" \in DOMAIN json /\ json.availableSuppliers # <<>>

\* C10: Initialize: every cart entry loaded from storage that has a
\* non-empty offer list has, after initialization, the name of the first
\* minimum-price offer as its selection, whatever selection was stored;
\* entries without offers are loaded unchanged.
C10_InitializeSelectsCheapest ==
    op.name = "mount"
      => /\ Len(items) = Len(C10_Stored)
         /\ \A i \in Entries(C10_Stored) :
              LET json == C10_Stored[i]
              IN IF C10_HasOffers(json)
                   THEN /\ items[i].selectedSupplierName =
                             Some(json.availableSuppliers
                                    [FirstMinimum(json.availableSuppliers)].name)
                        /\ items[i].id = json.id
                        /\ items[i].name = json.name
                        /\ items[i].quantity = json.quantity
                        /\ items[i].availableSuppliers =
                             Some(json.availableSuppliers)
                   ELSE items[i] = ParseItem(json)

\* A mount has just loaded an entry with offers whose stored selection was
\* not the cheapest offer, an entry with offers that had no stored selection
\* or an entry without offers that had one.
C10_Witness ==
    /\ op.name = "mount"
    /\ \E i \in Entries(C10_Stored) :
         /\ C10_HasOffers(C10_Stored[i])
         /\ "selectedSupplierName" \in DOMAIN C10_Stored[i]
         /\ Some(C10_Stored[i].selectedSupplierName)
              # items[i].selectedSupplierName
    /\ \E i \in Entries(C10_Stored) :
         \/ C10_HasOffers(C10_Stored[i])
              /\ "selectedSupplierName" \notin DOMAIN C10_Stored[i]
         \/ ~C10_HasOffers(C10_Stored[i])
              /\ "selectedSupplierName" \in DOMAIN C10_Stored[i]

\* ------------------------------------------------------------------ C11
\* The new list holds old[i] for exactly the positions i with keep[i], in
\* the old relative order, and nothing else.
Survivors(old, new, keep) ==
    LET rank(i) == Cardinality({ j \in 1 .. i : keep[j] })
    IN /\ Len(new) = Cardinality({ i \in Entries(old) : keep[i] })
       /\ \A i \in Entries(old) : keep[i] => new[rank(i)] = old[i]

\* C11: removeFromCart(productId) deletes every cart entry whose id equals
\* productId and leaves all other entries unchanged and in the same relative
\* order; the order history is unchanged.
C11_RemoveDeletesById ==
    [][ IsCall("removeFromCart")
        => /\ \A productId \in ProductIds :
                prevItems' = removeFromCartUpdate(prevItems, productId)
                => /\ \A i \in Entries(prevItems') :
                        prevItems'[i].id # productId
                   /\ Survivors(prevItems, prevItems',
                                [i \in Entries(prevItems) |->
                                   prevItems[i].id # productId])
           /\ UNCHANGED << orders, prevOrders >> ]_vars

\* removeFromCart has just removed one of two rendered entries and kept the
\* other.
C11_Witness ==
    /\ op.name = "removeFromCart"
    /\ Len(items) = 2
    /\ Len(prevItems) = 1
    /\ items[1].id # items[2].id
    /\ \E i \in Entries(items) : prevItems[1] = items[i]

\* ------------------------------------------------------------------ C12
\* The order line of a cart entry whose selection resolves; an entry that
\* does not resolve has none, and stands for itself.
C12_Line(item) ==
    IF Resolves(item)
      THEN LET offer == item.availableSuppliers[1]
                          [CHOOSE k \in Resolving(item) : TRUE]
           IN [productId |-> item.id, productName |-> item.name,
               quantity |-> item.quantity, supplierName |-> offer.name,
               supplierPrice |-> offer.price,
               itemTotal |-> offer.price * item.quantity]
      ELSE item

C12_Mixed(cart) ==
    /\ \A i \in Entries(cart) : cart[i].selectedSupplierName # Undefined
    /\ \E i \in Entries(cart) : Resolves(cart[i])
    /\ \E i \in Entries(cart) : ~Resolves(cart[i])

\* C12: placeOrder on a cart where every entry has a selection, at least
\* one entry resolves and at least one does not, does not abort: the new
\* Order contains exactly the resolvable entries, in cart order, and no item
\* for an unresolvable entry, and its total sums the resolvable entries only.
C12_UnresolvableSkipped ==
    [][ (IsCall("placeOrder") /\ C12_Mixed(items))
        => /\ op'.alert = "none"
           /\ Len(prevOrders') = Len(prevOrders) + 1
           /\ LET order == prevOrders'[Len(prevOrders')]
              IN /\ Survivors([i \in Entries(items) |-> C12_Line(items[i])],
                              order.items,
                              [i \in Entries(items) |-> Resolves(items[i])])
                 /\ RoundedTo2(order.totalAmount,
                               SumOfItemTotals(order.items)) ]_vars

\* A checkout of a cart with a resolvable and an unresolvable entry has
\* just produced an order with one item.
C12_Witness ==
    /\ op = [name |-> "placeOrder", alert |-> "none"]
    /\ C12_Mixed(items)
    /\ Len(items) = 2
    /\ Len(prevOrders[Len(prevOrders)].items) = 1

\* ------------------------------------------------------------------ C13
\* C13: store mutations run to completion synchronously: the state an
\* operation reads reflects every operation invoked before it.  placeOrder
\* invoked after addToCart, removeFromCart, updateQuantity or
\* selectSupplierForItem in the same event turn, before a re-render, fails or
\* succeeds according to the cart as those calls left it, and builds its
\* order from that cart.
C13_PlaceOrderReadsLatestCart ==
    [][ IsCall("placeOrder")
        => IF C2_Fails(prevItems)
             THEN op'.alert # "none" /\ prevOrders' = prevOrders
             ELSE /\ op'.alert = "none"
                  /\ Len(prevOrders') = Len(prevOrders) + 1
                  /\ Survivors([i \in Entries(prevItems) |->
                                  C12_Line(prevItems[i])],
                               prevOrders'[Len(prevOrders')].items,
                               [i \in Entries(prevItems) |->
                                  Resolves(prevItems[i])]) ]_vars

\* ------------------------------------------------------------------ C14
\* A step of a store operation that takes a cart with items to the empty
\* cart.
C14_Empties == prevItems # <<>> /\ prevItems' = <<>>

\* C14 as claimed: the cart goes from "has items" to "empty" only by
\* clearCart or a successful placeOrder: no step of addToCart,
\* removeFromCart, updateQuantity or selectSupplierForItem empties a cart
\* that has items.
C14_OnlyClearOrCheckoutEmpties ==
    [][ (\E c \in {"addToCart", "removeFromCart", "updateQuantity",
                   "selectSupplierForItem"} : IsCall(c))
        => ~C14_Empties ]_vars

\* C14 as amended: the cart goes from "has items" to "empty" only by
\* clearCart, a successful placeOrder, removeFromCart or updateQuantity: no
\* step of addToCart or selectSupplierForItem empties a cart that has items.
C14_AddAndSelectNeverEmpty ==
    [][ ((\E c \in CartCalls \cup {"placeOrder"} : IsCall(c)) /\ C14_Empties)
        => \/ op'.name \in {"clearCart", "removeFromCart", "updateQuantity"}
           \/ op' = [name |-> "placeOrder", alert |-> "none"] ]_vars

\* selectSupplierForItem has just changed a selection in a cart with items,
\* and the cart still has them.
C14_Witness ==
    /\ op.name = "selectSupplierForItem"
    /\ items # <<>>
    /\ Len(prevItems) = Len(items)
    /\ prevItems # items

\* ------------------------------------------------------------------ C15
\* Every entry that stays in the cart over the step keeps its id and, if its
\* selection resolved before, has a resolving selection after.  A step that
\* does not shorten the cart keeps every entry at its position; a step that
\* shortens it keeps some of the entries, in their old order.
C15_StaysResolved ==
    IF Len(prevItems') >= Len(prevItems)
      THEN \A i \in Entries(prevItems) :
             /\ prevItems'[i].id = prevItems[i].id
             /\ Resolves(prevItems[i]) => Resolves(prevItems'[i])
      ELSE \E keep \in [Entries(prevItems) -> BOOLEAN] :
             LET rank(i) == Cardinality({ j \in 1 .. i : keep[j] })
             IN /\ Len(prevItems')
                     = Cardinality({ i \in Entries(prevItems) : keep[i] })
                /\ \A i \in Entries(prevItems) :
                     keep[i]
                     => /\ prevItems'[rank(i)].id = prevItems[i].id
                        /\ Resolves(prevItems[i])
                             => Resolves(prevItems'[rank(i)])

\* C15 as claimed: the per-entry supplier lifecycle is one-way: once a cart
\* entry has a selected supplier that resolves to one of its offers, no
\* operation returns that entry, while it stays in the cart, to a state with
\* no selection or with a selection that matches none of its offers.
C15_ResolvedIsOneWay ==
    [][ (\E c \in CartCalls \cup {"placeOrder"} : IsCall(c))
        => C15_StaysResolved ]_vars

\* C15 as amended: no operation other than selectSupplierForItem returns a
\* resolved entry, while it stays in the cart, to an unresolved state.
C15_OnlySelectUnresolves ==
    [][ (\E c \in (CartCalls \ {"selectSupplierForItem"}) \cup {"placeOrder"} :
           IsCall(c))
        => C15_StaysResolved ]_vars

\* updateQuantity has just changed the quantity of a rendered entry whose
\* selection resolves, and the entry is still in the cart, resolved.
C15_Witness ==
    /\ op.name = "updateQuantity"
    /\ Len(prevItems) = Len(items)
    /\ \E i \in Entries(items) :
         /\ Resolves(items[i]) /\ Resolves(prevItems[i])
         /\ prevItems[i].quantity # items[i].quantity

\* ------------------------------------------------------------------ C16
\* C16: updateQuantity(productId, quantity) changes only the entries whose id
\* is productId: with quantity > 0 each of them gets that quantity, with
\* quantity <= 0 each of them is removed, and every entry with another id
\* stays in the cart, unchanged and in the same relative order.
C16_UpdateQuantityFrame ==
    [][ IsCall("updateQuantity")
        => \A productId \in ProductIds, quantity \in QuantityArgs :
             prevItems' = updateQuantityUpdate(prevItems, productId, quantity)
             => Survivors([i \in Entries(prevItems) |->
                             IF prevItems[i].id = productId
                               THEN [prevItems[i] EXCEPT !.quantity = quantity]
                               ELSE prevItems[i]],
                          prevItems',
                          [i \in Entries(prevItems) |->
                             prevItems[i].id # productId \/ quantity > 0]) ]_vars

\* ------------------------------------------------------------------ C17
C17_Unique(cart) ==
    \A i, j \in Entries(cart) :
        (/\ cart[i].id = cart[j].id
         /\ cart[i].selectedSupplierName = cart[j].selectedSupplierName)
        => i = j

\* C17: cart entries are unique by product and supplier: in every state
\* reachable from an empty cart no two cart entries have both the same id
\* and the same selectedSupplierName.
C17_EntriesUnique == C17_Unique(prevItems) /\ C17_Unique(items)

\* ------------------------------------------------------------------ C18
\* C18: a cart is checked out at most once: a placeOrder invoked right after
\* a successful placeOrder, before the store has re-rendered, finds the cart
\* empty and fails; it appends no order and does not invoke the success
\* callback.
C18_SecondPlaceOrderFails ==
    [][ (IsCall("placeOrder") /\ op = [name |-> "placeOrder", alert |-> "none"])
        => /\ op'.alert = "empty"
           /\ prevOrders' = prevOrders
           /\ checkoutCalls' = checkoutCalls ]_vars

\* ------------------------------------------------------------------ C19
\* The order history the `orders` record of the storage holds.
C19_StoredOrders ==
    IF storage.orders = Undefined THEN <<>> ELSE ParseOrders(storage.orders[1])

\* The `cartItems` record holds the empty cart the store has rendered.
C19_CartStoredEmpty ==
    items = <<>> /\ storage.cartItems = Some(StringifyItems(<<>>))

\* Every rendered order, the orders of the checkouts that emptied the cart
\* among them, is in the `orders` record.
C19_OrdersStored ==
    C19_StoredOrders = ParseOrders(StringifyOrders(orders))

\* C19 as claimed: at every point between individual storage writes, if the
\* persisted cartItems record has been emptied by a successful placeOrder
\* then the persisted orders record already contains that checkout's order.
C19_OrderStoredBeforeCartCleared ==
    C19_CartStoredEmpty => C19_OrdersStored

\* C19 as amended: once both persistence effects of the render that commits
\* a successful placeOrder have run, the persisted orders record contains
\* that checkout's order.
C19_OrderStoredAfterBothWrites ==
    (effects = <<>> /\ C19_CartStoredEmpty) => C19_OrdersStored

\* Both effects of a checkout's render have run: the storage holds the
\* emptied cart and the history with the new order.
C19_Witness ==
    /\ op.name = "persistOrders" /\ effects = <<>>
    /\ C19_CartStoredEmpty
    /\ checkoutCalls >= 1
    /\ Len(orders) > mountedOrders
    /\ Len(C19_StoredOrders) = Len(orders)

====
